---- MODULE Spec2Model ----
(***************************************************************************)
(* Note tracking of the Realtime-AtoM-Converter: the per-block             *)
(* audio_callback of project_yin/yin.py and of project_crepe/run.py, the   *)
(* MIDI messages they send, and the shutdown path of both scripts.         *)
(*                                                                         *)
(* Energies are integers in units of 0.0001 (mean RMS 0.005 is 50).       *)
(* A quantized note is the integer round(hz_to_midi(f0)) of the block.     *)
(***************************************************************************)
EXTENDS Integers, Sequences, FiniteSets, TLC

VARIABLES
    variant,      \* which script runs: "yin" or "crepe"
    cur_note,     \* global cur_note
    pre_notes,    \* global pre_notes (3 entries in yin, 4 in crepe)
    pre_velo,     \* global pre_velo (yin only; untouched in crepe)
    call_count,   \* global call_count (yin only; untouched in crepe)
    sent,         \* every message passed to midiout.send_message, in order
    senders,      \* the threads that have called midiout.send_message
    mark,         \* Len(sent) when the most recent handler started
    blk,          \* the input of the most recent audio_callback
    stream,       \* "running" while the InputStream delivers blocks
    midiout,      \* "open" until `del midiout`
    nblocks,      \* number of blocks delivered so far
    silent_run,   \* number of consecutive below-threshold blocks just delivered
    frames_since_attack,
                  \* stable same-note blocks without message since the last NoteOn
    twin          \* crepe's globals and messages when both callbacks get the
                  \* same blocks (yin's are in the variables above)

vars == <<variant, cur_note, pre_notes, pre_velo, call_count, sent, senders,
          mark, blk, stream, midiout, nblocks, silent_run,
          frames_since_attack, twin>>

----------------------------------------------------------------------------
(* Bounds of the model *)

MaxBlocks == 6

(* Inputs: mean RMS energies (units of 0.0001) and quantized notes *)
Energies == {0, 49, 50, 67, 77, 86, 91, 300}
Notes == {60, 61}
(* A block's pitch observation: <<n>> when the estimator's frequency       *)
(* quantizes to n, <<>> when no frequency passes crepe's confidence filter *)
NoPitch == <<>>
PitchOf(n) == <<n>>
NoBlock == [energy |-> -1, pitch |-> NoPitch]

----------------------------------------------------------------------------
(* Program constants *)

energy_threshold == 50    \* 0.005
velo_floor == 20          \* 0.002
yin_scale == 120          \* 0.012
crepe_scale == 150        \* 0.015
max_velo == 127
release_velo == 10
velo_jump == 20
min_call_count == 1

NOTE_ON == "NOTE_ON"
NOTE_OFF == "NOTE_OFF"

----------------------------------------------------------------------------
(* Pure helpers *)

Last(w) == w[Len(w)]
Last2(w) == w[Len(w) - 1]

Min(a, b) == IF a < b THEN a ELSE b

(* Python 3 round(): nearest integer, ties to the even one; den > 0 *)
Round(num, den) ==
    LET q == num \div den
        r == num % den
    IN  IF 2 * r < den THEN q
        ELSE IF 2 * r > den THEN q + 1
        ELSE IF q % 2 = 0 THEN q ELSE q + 1

(* mutant: the gate compares with <= *)
IsSilentLE(e) == e <= energy_threshold

(* np.mean(rms_energy) < energy_threshold *)
IsSilent(e) == e < energy_threshold

(* mutant: the velocity is not clipped *)
VelocityNoClamp(e, scale) == Round((e - velo_floor) * max_velo, scale)

(* cur_velo = min(127, round((energy - 0.002) / scale * 127)) *)
Velocity(e, scale) == Min(max_velo, Round((e - velo_floor) * max_velo, scale))

(* mutant: only the newest window entry is compared *)
StableLastOnly(temp, w) == temp = Last(w)

(* temp == pre_notes[-1] and temp == pre_notes[-2] *)
Stable(temp, w) == temp = Last(w) /\ temp = Last2(w)

(* pre_notes[1:] + [temp] *)
Shift(w, x) == Tail(w) \o <<x>>

(* mutants: the silent branch sends nothing; sends release velocity 0;     *)
(* sends without testing cur_note                                          *)
SilenceMsgsNone(cn) == <<>>
SilenceMsgsVeloZero(cn) == IF cn # -1 THEN <<  <<NOTE_OFF, cn, 0>>  >> ELSE <<>>
SilenceMsgsAlways(cn) == <<  <<NOTE_OFF, cn, release_velo>>  >>

(* the messages of the silent branch *)
SilenceMsgs(cn) == IF cn # -1 THEN <<  <<NOTE_OFF, cn, release_velo>>  >> ELSE <<>>

(* mutant: the note-change branch does not release the sounding note *)
ChangeMsgsNoOff(cn, temp, v) == <<  <<NOTE_ON, temp, v>>  >>

(* mutant: the note-change branch sends the NoteOn before the NoteOff *)
ChangeMsgsOnFirst(cn, temp, v) ==
    <<  <<NOTE_ON, temp, v>>  >>
        \o (IF cn # -1 THEN <<  <<NOTE_OFF, cn, release_velo>>  >> ELSE <<>>)

(* the messages of the note-change branch *)
ChangeMsgs(cn, temp, v) ==
    (IF cn # -1 THEN <<  <<NOTE_OFF, cn, release_velo>>  >> ELSE <<>>)
        \o <<  <<NOTE_ON, temp, v>>  >>

(* mutant: the velocity jump is compared with >= *)
RetriggerGE(v, pv, cc) == v >= pv + velo_jump /\ cc > min_call_count

(* yin: cur_velo > (pre_velo[-1] + 20) and call_count > 1 *)
Retrigger(v, pv, cc) == v > pv + velo_jump /\ cc > min_call_count

(* yin: the messages of the retrigger branch *)
RetriggerMsgs(cn, temp, v, pv) == <<  <<NOTE_OFF, cn, pv>>, <<NOTE_ON, temp, v>>  >>

----------------------------------------------------------------------------
(* project_yin/yin.py audio_callback as a function of the globals s and of *)
(* the block (energy e, quantized note temp); out = the messages sent      *)

YinStep(s, e, temp) ==
    IF IsSilent(e)
    THEN [cur_note   |-> -1,
          pre_notes  |-> s.pre_notes,
          pre_velo   |-> s.pre_velo,
          call_count |-> IF s.cur_note # -1 THEN 0 ELSE s.call_count,
          out        |-> SilenceMsgs(s.cur_note)]
    ELSE
      LET v == Velocity(e, yin_scale)
          pv == Last(s.pre_velo)
      IN  IF Stable(temp, s.pre_notes)
          THEN LET change == temp # s.cur_note
                   retrig == ~change /\ Retrigger(v, pv, s.call_count)
               IN [cur_note   |-> temp,
                   pre_notes  |-> Shift(s.pre_notes, temp),
                   pre_velo   |-> Shift(s.pre_velo, v),
                   call_count |-> IF change \/ retrig THEN 1
                                  ELSE s.call_count + 1,
                   out        |-> IF change THEN ChangeMsgs(s.cur_note, temp, v)
                                  ELSE IF retrig
                                       THEN RetriggerMsgs(s.cur_note, temp, v, pv)
                                       ELSE <<>>]
          ELSE [cur_note   |-> s.cur_note,
                pre_notes  |-> Shift(s.pre_notes, temp),
                pre_velo   |-> Shift(s.pre_velo, v),
                call_count |-> s.call_count,
                out        |-> <<>>]

(* mutant: crepe compares temp with the three newest entries of its        *)
(* four-entry window                                                       *)
CrepeStepThreeEntries(s, e, pitch) ==
    IF IsSilent(e)
    THEN [cur_note   |-> -1,
          pre_notes  |-> s.pre_notes,
          out        |-> SilenceMsgs(s.cur_note)]
    ELSE IF pitch = NoPitch
    THEN [cur_note   |-> s.cur_note,
          pre_notes  |-> s.pre_notes,
          out        |-> <<>>]
    ELSE
      LET v == Velocity(e, crepe_scale)
          temp == pitch[1]
      IN  IF Stable(temp, s.pre_notes) /\ temp = s.pre_notes[Len(s.pre_notes) - 2]
          THEN [cur_note   |-> temp,
                pre_notes  |-> Shift(s.pre_notes, temp),
                out        |-> IF temp # s.cur_note /\ temp # -1
                               THEN ChangeMsgs(s.cur_note, temp, v)
                               ELSE <<>>]
          ELSE [cur_note   |-> s.cur_note,
                pre_notes  |-> Shift(s.pre_notes, temp),
                out        |-> <<>>]

(* project_crepe/run.py audio_callback; pitch = NoPitch when no frequency  *)
(* passes the confidence filter                                            *)
CrepeStep(s, e, pitch) ==
    IF IsSilent(e)
    THEN [cur_note   |-> -1,
          pre_notes  |-> s.pre_notes,
          out        |-> SilenceMsgs(s.cur_note)]
    ELSE IF pitch = NoPitch
    THEN [cur_note   |-> s.cur_note,
          pre_notes  |-> s.pre_notes,
          out        |-> <<>>]
    ELSE
      LET v == Velocity(e, crepe_scale)
          temp == pitch[1]
      IN  IF Stable(temp, s.pre_notes)
          THEN [cur_note   |-> temp,
                pre_notes  |-> Shift(s.pre_notes, temp),
                out        |-> IF temp # s.cur_note /\ temp # -1
                               THEN ChangeMsgs(s.cur_note, temp, v)
                               ELSE <<>>]
          ELSE [cur_note   |-> s.cur_note,
                pre_notes  |-> Shift(s.pre_notes, temp),
                out        |-> <<>>]

----------------------------------------------------------------------------
(* State machine *)

(* run.py:76-77, with no message sent and no yin retrigger seen *)
TwinInit == [cur_note |-> -1, pre_notes |-> <<-1, -1, -1, -1>>,
             sent |-> <<>>, retriggered |-> FALSE]

Init ==
    /\ variant \in {"yin", "crepe"}
    /\ cur_note = -1
    /\ pre_notes = IF variant = "yin" THEN <<-1, -1, -1>> ELSE <<-1, -1, -1, -1>>
    /\ pre_velo = <<-1, -1, -1>>
    /\ call_count = 0
    /\ sent = <<>>
    /\ senders = {}
    /\ mark = 0
    /\ blk = NoBlock
    /\ stream = "running"
    /\ midiout = "open"
    /\ nblocks = 0
    /\ silent_run = 0
    /\ frames_since_attack = 0
    /\ twin = TwinInit

(* midiout.send_message for each message of out, called on thread th *)
SendAll(out, th) ==
    /\ sent' = sent \o out
    /\ senders' = IF out = <<>> THEN senders ELSE senders \cup {th}

(* bookkeeping of a delivered block with energy e *)
Delivered(e) ==
    /\ mark' = Len(sent)
    /\ nblocks' = nblocks + 1
    /\ silent_run' = IF e < energy_threshold THEN silent_run + 1 ELSE 0

(* the count of stable same-note blocks since the attack: 0 after a block  *)
(* that sends a NoteOn, one more after an active block whose note is the   *)
(* sounding note, equals the two newest window entries and sends nothing   *)
Attack(out, e, pitch) ==
    frames_since_attack' =
        IF \E i \in 1..Len(out) : out[i][1] = NOTE_ON THEN 0
        ELSE IF /\ e >= energy_threshold
                /\ pitch = <<cur_note>>
                /\ cur_note = pre_notes[Len(pre_notes)]
                /\ cur_note = pre_notes[Len(pre_notes) - 1]
                /\ out = <<>>
             THEN frames_since_attack + 1
             ELSE frames_since_attack

(* one block delivered to yin's audio_callback *)
YinAudioCallback ==
    /\ variant = "yin"
    /\ stream = "running"
    /\ nblocks < MaxBlocks
    /\ \E e \in Energies, temp \in Notes :
         LET r == YinStep([cur_note |-> cur_note, pre_notes |-> pre_notes,
                           pre_velo |-> pre_velo, call_count |-> call_count],
                          e, temp)
         IN  /\ cur_note' = r.cur_note
             /\ pre_notes' = r.pre_notes
             /\ pre_velo' = r.pre_velo
             /\ call_count' = r.call_count
             /\ SendAll(r.out, "audio")
             /\ blk' = [energy |-> e, pitch |-> PitchOf(temp)]
             /\ Delivered(e)
             /\ Attack(r.out, e, PitchOf(temp))
    /\ UNCHANGED <<variant, stream, midiout, twin>>

(* one block delivered to crepe's audio_callback *)
CrepeAudioCallback ==
    /\ variant = "crepe"
    /\ stream = "running"
    /\ nblocks < MaxBlocks
    /\ \E e \in Energies, pitch \in {PitchOf(n) : n \in Notes} \cup {NoPitch} :
         LET r == CrepeStep([cur_note |-> cur_note, pre_notes |-> pre_notes],
                            e, pitch)
         IN  /\ cur_note' = r.cur_note
             /\ pre_notes' = r.pre_notes
             /\ SendAll(r.out, "audio")
             /\ blk' = [energy |-> e, pitch |-> pitch]
             /\ Delivered(e)
             /\ Attack(r.out, e, pitch)
    /\ UNCHANGED <<variant, pre_velo, call_count, stream, midiout, twin>>

(* the messages the main thread sends between stopping the stream and      *)
(* `del midiout`: none in either script                                    *)
ShutdownMsgs(cn) == <<>>

(* yin: KeyboardInterrupt handler; crepe: the end of `with stream`         *)
Shutdown ==
    /\ stream = "running"
    /\ stream' = "stopped"
    /\ SendAll(ShutdownMsgs(cur_note), "main")
    /\ mark' = Len(sent)
    /\ midiout' = "released"
    /\ UNCHANGED <<variant, cur_note, pre_notes, pre_velo, call_count, blk,
                   nblocks, silent_run, frames_since_attack, twin>>

Next == YinAudioCallback \/ CrepeAudioCallback \/ Shutdown

Spec == Init /\ [][Next]_vars

----------------------------------------------------------------------------
(* Observations of a behaviour *)

IsOn(m) == m[1] = NOTE_ON
IsOff(m) == m[1] = NOTE_OFF

(* the messages sent by the most recent handler *)
Out == SubSeq(sent, mark + 1, Len(sent))

(* NoteOn messages minus NoteOff messages among the first k sent *)
Balance(k) ==
    Cardinality({i \in 1..k : IsOn(sent[i])})
        - Cardinality({i \in 1..k : IsOff(sent[i])})

(* the note of the most recent NoteOn; -1 when none was sent *)
LastOnNote ==
    LET ons == {i \in 1..Len(sent) : IsOn(sent[i])}
    IN  IF ons = {} THEN -1
        ELSE sent[CHOOSE i \in ons : \A j \in ons : j <= i][2]

(* the step delivers one block to audio_callback *)
BlockStep == nblocks' = nblocks + 1

----------------------------------------------------------------------------
C3_SilenceForcesRelease ==
    [][(BlockStep /\ blk'.energy < energy_threshold /\ cur_note # -1)
          => (/\ Out' = << <<NOTE_OFF, cur_note, 10>> >>
              /\ cur_note' = -1)]_vars

(* a silent block has just released the sounding note *)
C3_Witness ==
    /\ nblocks > 0
    /\ blk.energy < energy_threshold
    /\ Len(Out) = 1
    /\ IsOff(Out[1])
    /\ Out[1][2] = LastOnNote
    /\ cur_note = -1

(* C4 - Idempotent silence: a below-threshold block delivered when         *)
(* cur_note = -1 sends nothing and leaves cur_note = -1, so any run of     *)
(* silent blocks after the first one sends nothing.                        *)
C4_IdempotentSilence ==
    /\ [][(BlockStep /\ blk'.energy < energy_threshold /\ cur_note = -1)
             => (Out' = <<>> /\ cur_note' = -1 /\ sent' = sent)]_vars
    /\ [](silent_run >= 2 => (Out = <<>> /\ cur_note = -1))

(* three silent blocks in a row after a note was played and released *)
C4_Witness ==
    /\ silent_run >= 3
    /\ sent # <<>>
    /\ Out = <<>>
    /\ cur_note = -1

(* C5 - Energy gate overrides pitch: a block below the threshold sends no  *)
(* NoteOn whatever its pitch and the window; a block whose energy equals   *)
(* the threshold is processed as active: its note enters the window and    *)
(* it does not release the sounding note as silence would.                 *)
C5_EnergyGate ==
    [][BlockStep =>
        /\ blk'.energy < energy_threshold
              => \A i \in 1..Len(Out') : ~IsOn(Out'[i])
        /\ (blk'.energy = energy_threshold /\ blk'.pitch # NoPitch)
              => /\ pre_notes' = Tail(pre_notes) \o blk'.pitch
                 /\ (cur_note # -1 => cur_note' # -1)]_vars

(* a block just below the threshold arrived with the window holding its   *)
(* own pitch twice and sent nothing, after a block at exactly the          *)
(* threshold had started a note                                            *)
C5_Witness ==
    /\ nblocks > 0
    /\ blk.energy = energy_threshold - 1
    /\ blk.pitch # NoPitch
    /\ blk.pitch[1] = pre_notes[Len(pre_notes)]
    /\ blk.pitch[1] = pre_notes[Len(pre_notes) - 1]
    /\ Out = <<>>
    /\ \E i \in 1..Len(sent) :
          /\ IsOn(sent[i])
          /\ sent[i][3] = IF variant = "yin" THEN 32 ELSE 25

(* C6 - Debounce: a NoteOn(n, v) is sent only by an active block whose     *)
(* quantized note is n while the two newest window entries are both n; so  *)
(* no NoteOn is sent while the window still holds the initial -1 in one of *)
(* its two newest entries, nor during the first two blocks of a stream.    *)
C6_Debounce ==
    /\ [][BlockStep =>
            \A i \in 1..Len(Out') :
               IsOn(Out'[i]) =>
                  /\ blk'.energy >= energy_threshold
                  /\ blk'.pitch = << Out'[i][2] >>
                  /\ pre_notes[Len(pre_notes)] = Out'[i][2]
                  /\ pre_notes[Len(pre_notes) - 1] = Out'[i][2]]_vars
    /\ []((pre_notes[Len(pre_notes) - 1] = -1 \/ nblocks <= 2)
             => \A i \in 1..Len(sent) : ~IsOn(sent[i]))

(* note 60 is sounding, the last three quantized notes were 60, 61, 60,    *)
(* and nothing was sent for 61                                             *)
C6_Witness ==
    /\ SubSeq(pre_notes, Len(pre_notes) - 2, Len(pre_notes)) = <<60, 61, 60>>
    /\ cur_note = 60
    /\ sent # <<>>
    /\ \A i \in 1..Len(sent) : sent[i][2] # 61

(* C7 - Retrigger on velocity jump (yin): on an active block whose note is *)
(* the sounding note and is stable, with call_count > 1, NoteOff(cur_note, *)
(* pre_velo[-1]) then NoteOn(cur_note, velo) are sent when velo >          *)
(* pre_velo[-1] + 20, and nothing is sent otherwise; from velocity 50 the  *)
(* velocity 75 retriggers and the velocities 60 and 70 do not.             *)
C7_Retrigger ==
    [][(/\ BlockStep
        /\ variant = "yin"
        /\ cur_note # -1
        /\ blk'.energy >= energy_threshold
        /\ blk'.pitch = <<cur_note>>
        /\ pre_notes[3] = cur_note
        /\ pre_notes[2] = cur_note
        /\ call_count > 1)
       => LET velo == pre_velo'[3]
              currentVelocity == pre_velo[3]
          IN  /\ IF velo > currentVelocity + 20
                 THEN Out' = << <<NOTE_OFF, cur_note, currentVelocity>>,
                                <<NOTE_ON, cur_note, velo>> >>
                 ELSE Out' = <<>>
              /\ (cur_note = 60 /\ currentVelocity = 50) =>
                    /\ blk'.energy = 91 =>
                          Out' = << <<NOTE_OFF, 60, 50>>, <<NOTE_ON, 60, 75>> >>
                    /\ blk'.energy = 86 => (velo = 70 /\ Out' = <<>>)
                    /\ blk'.energy = 77 => (velo = 60 /\ Out' = <<>>)]_vars

(* the retrigger of note 60 from velocity 50 to velocity 75 was just sent *)
C7_Witness ==
    /\ variant = "yin"
    /\ Out = << <<NOTE_OFF, 60, 50>>, <<NOTE_ON, 60, 75>> >>
    /\ cur_note = 60

(* the sounding note 60 met a jump of exactly 20 after call_count > 1 and  *)
(* nothing was sent                                                        *)
C7_WitnessNoRetrigger ==
    /\ variant = "yin"
    /\ cur_note = 60
    /\ call_count > 2
    /\ pre_notes = <<60, 60, 60>>
    /\ pre_velo[2] = 50 /\ pre_velo[3] = 70
    /\ Out = <<>>

(* C8 - Teardown safety: when the MIDI output has been released, a note    *)
(* that was open at shutdown got exactly one final NoteOff from the        *)
(* shutdown path, a silent state got no message, and no NoteOn is left     *)
(* unmatched.                                                              *)
C8_TeardownSafety ==
    midiout = "released" =>
        /\ Balance(mark) = 1 =>
              /\ Len(Out) = 1
              /\ IsOff(Out[1])
              /\ Out[1][2] = cur_note
        /\ Balance(mark) = 0 => Out = <<>>
        /\ Balance(Len(sent)) = 0

(* C9 - Velocity range: every NoteOn sent carries a velocity in 1..127;    *)
(* at the gate (energy 0.005) the velocity is 32 in yin and 25 in crepe,   *)
(* and at energy 0.03 it is clipped to 127.                                *)
C9_VelocityRange ==
    /\ \A i \in 1..Len(sent) : IsOn(sent[i]) => sent[i][3] \in 1..127
    /\ \A i \in 1..Len(Out) :
          IsOn(Out[i]) =>
             /\ blk.energy = 50 => Out[i][3] = IF variant = "yin" THEN 32 ELSE 25
             /\ blk.energy = 300 => Out[i][3] = 127

(* NoteOn messages were sent with the lowest velocity and with the clipped *)
(* velocity                                                                *)
C9_Witness ==
    /\ blk.energy = 300
    /\ Out # <<>>
    /\ IsOn(Out[Len(Out)])
    /\ Out[Len(Out)][3] = 127
    /\ \E i \in 1..Len(sent) : IsOn(sent[i]) /\ sent[i][3] <= 32

(* C10 - Real-time decoupling: the audio callback thread never calls the   *)
(* MIDI transport; every message is sent by a separate consumer.           *)
C10_CallbackNeverSends ==
    \A th \in senders : th # "audio"

(* the block of the step is active and yields the quantized note n, which  *)
(* equals the two newest window entries before the block                   *)
StableBlock(n) ==
    /\ BlockStep
    /\ blk'.energy >= energy_threshold
    /\ blk'.pitch = <<n>>
    /\ pre_notes[Len(pre_notes)] = n
    /\ pre_notes[Len(pre_notes) - 1] = n

(* the block of the step is active, yields a quantized note, and that note *)
(* differs from one of the two newest window entries before the block      *)
UnstableBlock ==
    /\ BlockStep
    /\ blk'.energy >= energy_threshold
    /\ blk'.pitch # NoPitch
    /\ \/ pre_notes[Len(pre_notes)] # blk'.pitch[1]
       \/ pre_notes[Len(pre_notes) - 1] # blk'.pitch[1]

(* C11 - Note change: an active block whose note n is stable and differs   *)
(* from cur_note sends NoteOff(cur_note, 10) exactly when a note was       *)
(* sounding, then NoteOn(n, velo) with the block's velocity, and ends with *)
(* cur_note = n and the attack counters restarted (call_count = 1 in yin); *)
(* so every NoteOff directly follows the NoteOn of the same note.          *)
C11_NoteChange ==
    /\ [][\A n \in Notes :
            (StableBlock(n) /\ n # cur_note) =>
               LET velo == Velocity(blk'.energy,
                              IF variant = "yin" THEN yin_scale ELSE crepe_scale)
               IN  /\ Out' = (IF cur_note # -1
                              THEN << <<NOTE_OFF, cur_note, 10>> >> ELSE <<>>)
                                 \o << <<NOTE_ON, n, velo>> >>
                   /\ cur_note' = n
                   /\ frames_since_attack' = 0
                   /\ variant = "yin" => call_count' = 1]_vars
    /\ [](\A i \in 1..Len(sent) :
             IsOff(sent[i]) =>
                /\ i > 1
                /\ IsOn(sent[i - 1])
                /\ sent[i - 1][2] = sent[i][2])

(* note 60 was sounding and the third block of note 61 replaced it *)
C11_Witness ==
    /\ Len(Out) = 2
    /\ Out[1] = <<NOTE_OFF, 60, 10>>
    /\ IsOn(Out[2]) /\ Out[2][2] = 61
    /\ cur_note = 61
    /\ blk.pitch = <<61>>

(* C12 - The window advances on every block: a silent block and a block    *)
(* without confident pitch push -1 and evict the oldest entry, so that the *)
(* newest entry is -1 right after such a block.                            *)
C12_WindowAdvancesOnEveryBlock ==
    [][(BlockStep /\ (blk'.energy < energy_threshold \/ blk'.pitch = NoPitch))
          => /\ pre_notes' = Tail(pre_notes) \o <<-1>>
             /\ pre_notes'[Len(pre_notes')] = -1]_vars

(* the messages are a retrigger: NoteOff then NoteOn of the same note *)
IsRetrigger(out) ==
    /\ Len(out) = 2
    /\ out[1][1] = NOTE_OFF
    /\ out[2][1] = NOTE_ON
    /\ out[1][2] = out[2][2]

(* C13 - Minimum frames before retrigger (yin): with the count of stable   *)
(* same-note blocks 0 after the block that sends a NoteOn and one more     *)
(* after each later stable same-note block that sends nothing, a retrigger *)
(* is sent only by a block at whose start that count exceeds 1.            *)
C13_MinFramesBeforeRetrigger ==
    [][(BlockStep /\ variant = "yin" /\ IsRetrigger(Out'))
          => frames_since_attack > 1]_vars

----------------------------------------------------------------------------
(* crepe with an estimator that may report a frequency quantizing to -1    *)

SentinelNotes == Notes \cup {-1}

InitSentinel == Init /\ variant = "crepe"

(* one block delivered to crepe's audio_callback *)
CrepeSentinelCallback ==
    /\ variant = "crepe"
    /\ stream = "running"
    /\ nblocks < MaxBlocks
    /\ \E e \in Energies, temp \in SentinelNotes :
         LET r == CrepeStep([cur_note |-> cur_note, pre_notes |-> pre_notes],
                            e, PitchOf(temp))
         IN  /\ cur_note' = r.cur_note
             /\ pre_notes' = r.pre_notes
             /\ SendAll(r.out, "audio")
             /\ blk' = [energy |-> e, pitch |-> PitchOf(temp)]
             /\ Delivered(e)
             /\ Attack(r.out, e, PitchOf(temp))
    /\ UNCHANGED <<variant, pre_velo, call_count, stream, midiout, twin>>

NextSentinel == CrepeSentinelCallback \/ Shutdown

SpecSentinel == InitSentinel /\ [][NextSentinel]_vars

(* C15 - The sentinel is never a note: no message carries the note number  *)
(* -1, and cur_note is never -1 while a NoteOn is unmatched, i.e. cur_note *)
(* never goes from a sounding note to -1 without the NoteOff of that note. *)
C15_SentinelNeverANote ==
    /\ \A i \in 1..Len(sent) : sent[i][2] # -1
    /\ cur_note = -1 => Balance(Len(sent)) = 0

----------------------------------------------------------------------------
(* Both callbacks fed the same blocks, each active block with a confident  *)
(* quantized note of Notes: yin's globals and messages are the variables   *)
(* cur_note .. sent, crepe's are in twin                                   *)

InitPair ==
    /\ variant = "both"
    /\ cur_note = -1
    /\ pre_notes = <<-1, -1, -1>>
    /\ pre_velo = <<-1, -1, -1>>
    /\ call_count = 0
    /\ sent = <<>>
    /\ senders = {}
    /\ mark = 0
    /\ blk = NoBlock
    /\ stream = "running"
    /\ midiout = "open"
    /\ nblocks = 0
    /\ silent_run = 0
    /\ frames_since_attack = 0
    /\ twin = TwinInit

(* one block delivered to yin's and to crepe's audio_callback *)
PairCallback ==
    /\ variant = "both"
    /\ stream = "running"
    /\ nblocks < MaxBlocks
    /\ \E e \in Energies, temp \in Notes :
         LET r == YinStep([cur_note |-> cur_note, pre_notes |-> pre_notes,
                           pre_velo |-> pre_velo, call_count |-> call_count],
                          e, temp)
             c == CrepeStep([cur_note |-> twin.cur_note,
                             pre_notes |-> twin.pre_notes], e, PitchOf(temp))
         IN  /\ cur_note' = r.cur_note
             /\ pre_notes' = r.pre_notes
             /\ pre_velo' = r.pre_velo
             /\ call_count' = r.call_count
             /\ SendAll(r.out, "audio")
             /\ blk' = [energy |-> e, pitch |-> PitchOf(temp)]
             /\ Delivered(e)
             /\ Attack(r.out, e, PitchOf(temp))
             /\ twin' = [cur_note    |-> c.cur_note,
                         pre_notes   |-> c.pre_notes,
                         sent        |-> twin.sent \o c.out,
                         retriggered |-> twin.retriggered \/ IsRetrigger(r.out)]
    /\ UNCHANGED <<variant, stream, midiout>>

NextPair == PairCallback

SpecPair == InitPair /\ [][NextPair]_vars

(* the messages of a log by kind and note number *)
KindAndNote(log) == [i \in 1..Len(log) |-> <<log[i][1], log[i][2]>>]

(* C16 - Variant equivalence: as long as the yin retrigger has not fired,  *)
(* yin and crepe have sent the same sequence of messages by kind and note  *)
(* number and have the same cur_note after every block.                    *)
C16_VariantEquivalence ==
    ~twin.retriggered =>
        /\ KindAndNote(sent) = KindAndNote(twin.sent)
        /\ cur_note = twin.cur_note

(* both variants started note 60 and replaced it by note 61 with different *)
(* velocities, and yin never retriggered                                   *)
C16_Witness ==
    /\ variant = "both"
    /\ ~twin.retriggered
    /\ Len(sent) = 3
    /\ KindAndNote(sent) = << <<NOTE_ON, 60>>, <<NOTE_OFF, 60>>, <<NOTE_ON, 61>> >>
    /\ sent[3][3] # twin.sent[3][3]
    /\ cur_note = 61

====
